---- MODULE Spec2Model ----
(***************************************************************************)
(* filelock-rs: advisory file locks on raw file descriptors (src/lib.rs)   *)
(* and the PID file built on them (src/pid.rs).                            *)
(*                                                                         *)
(* Several actors (threads of one or of several processes) run Pid::new    *)
(* and the Drop of the Pid they obtained against one shared filesystem and *)
(* one kernel lock table.  Every system call of Pid::new and of drop is    *)
(* one step, so that the calls of different actors interleave.             *)
(***************************************************************************)
EXTENDS Integers, Sequences, FiniteSets, TLC

(* ---------------------------------------------------------------- bounds *)

\* number of actors (callers of Pid::new) that run concurrently
NumActors == 2
\* longest content a file may hold before the first step of the model
MaxStale == 2
MaxOperation == 15

Actors == 1..NumActors

\* std::process::id() in the process the actor runs in: actors 1 and 3 are
\* threads of process 12, actor 2 runs in process 7
process_id(a) == IF a % 2 = 1 THEN 12 ELSE 7

\* the `path` and `name` arguments callers pass to Pid::new
Dirs == {"/tmp"}
Names == {"demo"}

(* ------------------------------------------------------- partial functions *)

Put(f, k, v) == [x \in (DOMAIN f) \cup {k} |-> IF x = k THEN v ELSE f[x]]

Del(f, k) == [x \in (DOMAIN f) \ {k} |-> f[x]]

Empty == [x \in {} |-> 0]

Min(S) == CHOOSE x \in S : \A y \in S : x <= y

(* ------------------------------------------------------ formatting helpers *)

Digit(d) ==
    CASE d = 0 -> "0" [] d = 1 -> "1" [] d = 2 -> "2" [] d = 3 -> "3"
      [] d = 4 -> "4" [] d = 5 -> "5" [] d = 6 -> "6" [] d = 7 -> "7"
      [] d = 8 -> "8" [] d = 9 -> "9"

\* format!("{pid}").as_bytes(): the decimal digits of a u32, most significant
\* first, no sign, no padding, no terminator
RECURSIVE Decimal(_)
Decimal(n) ==
    IF n < 10 THEN <<Digit(n)>> ELSE Append(Decimal(n \div 10), Digit(n % 10))

\* format!("{path}/{name}.pid")
FilePath(path, name) == path \o "/" \o name \o ".pid"

Paths == {FilePath(d, n) : d \in Dirs, n \in Names}

(* ------------------------------------------------------- operation codes *)

LOCK_SH == 1
LOCK_EX == 2
LOCK_NB == 4
LOCK_UN == 8

\* operation & bit != 0, for a bit that is a power of two
HasBit(operation, bit) == (operation \div bit) % 2 = 1

\* a | b for two codes with no bit in common
BitOr(a, b) == a + b

(* ------------------------------------------------------------------ state *)

VARIABLES
    dirent,     \* filesystem: path -> inode, for the paths that exist
    inodes,     \* filesystem: inode -> content (a sequence of bytes)
    fdtab,      \* kernel: open file description -> [inode, offset, lock]
    pc,         \* actor -> position in Pid::new / in drop
    pid,        \* actor -> local `pid` of a running Pid::new
    file_path,  \* actor -> local `file_path` of a running Pid::new
    file,       \* actor -> local `file` of a running Pid::new
    self,       \* actor -> the Pid it owns: [process_id, file_path, file]
    result,     \* actor -> how its last call ended, while no call is running
    calls,      \* actor -> the system calls of its current (or last) call
    arg         \* the calls of FdLock::flock as built for Solaris that are
                \* in progress, and the last that returned: actor ->
                \* operation, flag, the fcntl calls made, the value returned

vars == <<dirent, inodes, fdtab, pc, pid, file_path, file, self,
          result, calls, arg>>

NoResult == [call |-> "none", outcome |-> "none", at |-> "", err |-> ""]

Ok(call) == [call |-> call, outcome |-> "Ok", at |-> "", err |-> ""]

Err(at, err) == [call |-> "new", outcome |-> "Err", at |-> at, err |-> err]

Panic(at, err) == [call |-> "drop", outcome |-> "panic", at |-> at, err |-> err]

(* ------------------------------------------------- the operating system *)

\* the least identifier not in use
Fresh(used) == Min({i \in 1..(Cardinality(used) + 1) : i \notin used})

\* an inode lives while a path names it or an open file description refers to it
Reclaim(d, t, ino) ==
    LET live == {d[p] : p \in DOMAIN d} \cup {t[f].inode : f \in DOMAIN t}
    IN  [i \in (DOMAIN ino) \cap live |-> ino[i]]

\* open(path, O_WRONLY | O_CREAT | O_TRUNC): what File::create asks for.
\* An existing file is truncated to length 0, a missing one is created empty;
\* the new open file description starts at offset 0 and holds no lock.
OpenCreateTrunc(d, ino, t, path) ==
    LET i  == IF path \in DOMAIN d THEN d[path] ELSE Fresh(DOMAIN ino)
        fd == Fresh(DOMAIN t)
    IN  [fd     |-> fd,
         dirent |-> Put(d, path, i),
         inodes |-> Put(ino, i, <<>>),
         fdtab  |-> Put(t, fd, [inode |-> i, offset |-> 0, lock |-> "none"])]

\* close(fd) of the only descriptor of an open file description: the
\* description goes away and with it the flock lock it holds
Close(t, fd) == Del(t, fd)

\* another open file description of the same file holds a lock that a
\* request for `want` ("sh" or "ex") on fd conflicts with
Conflict(t, fd, want) ==
    \E g \in (DOMAIN t) \ {fd} :
        /\ t[g].inode = t[fd].inode
        /\ \/ t[g].lock = "ex"
           \/ want = "ex" /\ t[g].lock # "none"

\* the lock kind an operation code asks for
LockKind(operation) ==
    LET base == IF HasBit(operation, LOCK_NB) THEN operation - LOCK_NB
                ELSE operation
    IN  CASE base = LOCK_SH -> "sh"
          [] base = LOCK_EX -> "ex"
          [] base = LOCK_UN -> "none"
          [] OTHER -> "invalid"

\* a flock(2) call that would have to wait
MustWait(t, fd, operation) ==
    /\ LockKind(operation) \in {"sh", "ex"}
    /\ Conflict(t, fd, LockKind(operation))

\* libc::flock(fd, operation): [ret, errno, fdtab, wait].  `fault` is a
\* failure of the call for a reason outside the lock table (ENOLCK, ...).
\* A request for a lock of another kind than the one fd holds first removes
\* the lock fd holds.  A call that must wait is answered EWOULDBLOCK when
\* LOCK_NB is set; without LOCK_NB it sleeps (wait): it returns 0 once it need
\* not wait any more, and before that only when a signal interrupts it (EINTR).
libc_flock(t, fd, operation, fault) ==
    LET kind == LockKind(operation)
        gone == [t EXCEPT ![fd].lock = "none"]
    IN  IF fault
        THEN [ret |-> -1, errno |-> "ENOLCK", fdtab |-> t, wait |-> FALSE]
        ELSE IF kind = "invalid"
        THEN [ret |-> -1, errno |-> "EINVAL", fdtab |-> t, wait |-> FALSE]
        ELSE IF kind = t[fd].lock
        THEN [ret |-> 0, errno |-> "", fdtab |-> t, wait |-> FALSE]
        ELSE IF MustWait(t, fd, operation)
        THEN IF HasBit(operation, LOCK_NB)
             THEN [ret |-> -1, errno |-> "EWOULDBLOCK", fdtab |-> gone,
                   wait |-> FALSE]
             ELSE [ret |-> -1, errno |-> "EINTR", fdtab |-> gone, wait |-> TRUE]
        ELSE [ret |-> 0, errno |-> "",
              fdtab |-> [t EXCEPT ![fd].lock = kind], wait |-> FALSE]

\* unlink(path): [ret, errno, dirent]
libc_unlink(d, path, fault) ==
    IF fault THEN [ret |-> -1, errno |-> "EACCES", dirent |-> d]
    ELSE IF path \notin DOMAIN d THEN [ret |-> -1, errno |-> "ENOENT", dirent |-> d]
    ELSE [ret |-> 0, errno |-> "", dirent |-> Del(d, path)]

\* the content of a file after `bytes` are written at `offset`
WriteAt(content, offset, bytes) ==
    LET end == offset + Len(bytes)
        len == IF end > Len(content) THEN end ELSE Len(content)
    IN  [k \in 1..len |->
            IF k > offset /\ k <= end THEN bytes[k - offset]
            ELSE IF k <= Len(content) THEN content[k]
            ELSE "\\0"]

(* --------------------------------------------------- FdLock (src/lib.rs) *)

\* FdLock::flock: Err(last_os_error) when libc::flock returns < 0, else Ok(())
flock(t, fd, operation, fault) ==
    LET r == libc_flock(t, fd, operation, fault)
    IN  IF r.ret < 0
        THEN [ok |-> FALSE, err |-> r.errno, fdtab |-> r.fdtab, wait |-> r.wait]
        ELSE [ok |-> TRUE, err |-> "", fdtab |-> r.fdtab, wait |-> FALSE]

\* lock_shared asking for the exclusive lock
lock_shared_asks_exclusive(t, fd, fault) == flock(t, fd, LOCK_EX, fault)

lock_shared(t, fd, fault) == flock(t, fd, LOCK_SH, fault)

\* lock_exclusive asking for the shared lock
lock_exclusive_asks_shared(t, fd, fault) == flock(t, fd, LOCK_SH, fault)

\* lock_exclusive with LOCK_NB set
lock_exclusive_does_not_wait(t, fd, fault) ==
    flock(t, fd, BitOr(LOCK_EX, LOCK_NB), fault)

lock_exclusive(t, fd, fault) == flock(t, fd, LOCK_EX, fault)

\* try_lock_shared without LOCK_NB
try_lock_shared_waits(t, fd, fault) == flock(t, fd, LOCK_SH, fault)

try_lock_shared(t, fd, fault) == flock(t, fd, BitOr(LOCK_SH, LOCK_NB), fault)

\* try_lock_exclusive asking for the shared lock (LOCK_SH | LOCK_NB)
try_lock_exclusive_asks_shared(t, fd, fault) ==
    flock(t, fd, BitOr(LOCK_SH, LOCK_NB), fault)

try_lock_exclusive(t, fd, fault) == flock(t, fd, BitOr(LOCK_EX, LOCK_NB), fault)

\* unlock passing the modifier LOCK_NB in place of LOCK_UN
unlock_passes_modifier(t, fd, fault) == flock(t, fd, LOCK_NB, fault)

unlock(t, fd, fault) == flock(t, fd, LOCK_UN, fault)

\* the trait method named m
Method(m, t, fd, fault) ==
    CASE m = "lock_shared" -> lock_shared(t, fd, fault)
      [] m = "lock_exclusive" -> lock_exclusive(t, fd, fault)
      [] m = "try_lock_shared" -> try_lock_shared(t, fd, fault)
      [] m = "try_lock_exclusive" -> try_lock_exclusive(t, fd, fault)
      [] m = "unlock" -> unlock(t, fd, fault)

Methods ==
    {"lock_shared", "lock_exclusive", "try_lock_shared", "try_lock_exclusive",
     "unlock"}

\* what a call of method m made of r, the answer of FdLock::flock: the caller
\* sleeps inside the call (pc names the method), or the call returns
Answer(a, m, r) ==
    /\ fdtab' = r.fdtab
    /\ calls' = [calls EXCEPT ![a] = <<"flock">>]
    /\ IF r.wait
       THEN /\ pc' = [pc EXCEPT ![a] = m]
            /\ result' = [result EXCEPT ![a] = NoResult]
       ELSE /\ pc' = [pc EXCEPT ![a] = "idle"]
            /\ result' = [result EXCEPT ![a] =
                             [call |-> m, outcome |-> IF r.ok THEN "Ok" ELSE "Err",
                              at |-> "", err |-> r.err]]
    /\ UNCHANGED <<dirent, inodes, pid, file_path, file, self, arg>>

\* a caller that owns an open File and is in no call
Ready(a) == pc[a] = "idle" /\ a \in DOMAIN file

LockShared(a, fault) ==
    /\ Ready(a)
    /\ Answer(a, "lock_shared", lock_shared(fdtab, file[a], fault))

LockExclusive(a, fault) ==
    /\ Ready(a)
    /\ Answer(a, "lock_exclusive", lock_exclusive(fdtab, file[a], fault))

TryLockShared(a, fault) ==
    /\ Ready(a)
    /\ Answer(a, "try_lock_shared", try_lock_shared(fdtab, file[a], fault))

TryLockExclusive(a, fault) ==
    /\ Ready(a)
    /\ Answer(a, "try_lock_exclusive", try_lock_exclusive(fdtab, file[a], fault))

Unlock(a, fault) ==
    /\ Ready(a)
    /\ Answer(a, "unlock", unlock(fdtab, file[a], fault))

\* a caller asleep in libc::flock need not wait any more: the call returns
Granted(a) ==
    /\ pc[a] \in Methods
    /\ a \in DOMAIN file
    /\ LET r == Method(pc[a], fdtab, file[a], FALSE)
       IN  ~r.wait /\ Answer(a, pc[a], r)

\* a signal interrupts a caller asleep in libc::flock: Err(EINTR)
Interrupted(a) ==
    /\ pc[a] \in Methods
    /\ a \in DOMAIN file
    /\ LET r == Method(pc[a], fdtab, file[a], FALSE)
       IN  r.wait /\ Answer(a, pc[a], [r EXCEPT !.wait = FALSE])

(* ------------------------- FdLock::flock for Solaris (src/lib.rs 111-147) *)

F_RDLCK == 1
F_WRLCK == 2
F_SETLK == 6
F_SETLKW == 7

\* libc::F_UNLCK, the l_type by which fcntl removes a lock: the value that
\* follows F_WRLCK.  The code does not use it.
F_UNLCK == F_WRLCK + 1

\* lines 122-133 with a last branch that asks for a read lock
l_type_defaults_to_read(operation) ==
    IF HasBit(operation, LOCK_UN) THEN <<LOCK_UN>>
    ELSE IF HasBit(operation, LOCK_EX) THEN <<F_WRLCK>>
    ELSE <<F_RDLCK>>

\* lines 122-133, flock.l_type = if operation & LOCK_UN != 0 { LOCK_UN } else
\* if operation & LOCK_EX != 0 { F_WRLCK } else if operation & LOCK_SH != 0
\* { F_RDLCK } else { return Err(..) }: <<the value>>, or <<>> for the return
l_type(operation) ==
    IF HasBit(operation, LOCK_UN) THEN <<LOCK_UN>>
    ELSE IF HasBit(operation, LOCK_EX) THEN <<F_WRLCK>>
    ELSE IF HasBit(operation, LOCK_SH) THEN <<F_RDLCK>>
    ELSE <<>>

\* lines 135-138: cmd = F_SETLKW; if (flag & LOCK_NB) != 0 { cmd = F_SETLK }.
\* The code reads `flag`, which is not the parameter `operation`.
cmd(flag) == IF HasBit(flag, LOCK_NB) THEN F_SETLK ELSE F_SETLKW

\* the lock kind an l_type asks fcntl for
RecordKind(ty) ==
    CASE ty = F_RDLCK -> "sh"
      [] ty = F_WRLCK -> "ex"
      [] ty = F_UNLCK -> "none"
      [] OTHER -> "invalid"

\* libc::fcntl(fd, c, &lk) for c in {F_SETLK, F_SETLKW} and a lock lk on the
\* whole file (l_whence 0, l_start 0, l_len 0): [ret, errno, fdtab, wait].
\* A record lock belongs to the process: `mine` are the descriptors of the
\* calling process, which all show the lock the process holds on the file
\* and never conflict with each other.  An l_type that is no lock type is
\* answered EINVAL.  A conflicting request leaves the lock the process holds
\* in place: F_SETLK answers EAGAIN, F_SETLKW sleeps.
libc_fcntl(t, mine, fd, c, lk, fault) ==
    LET kind   == RecordKind(lk.l_type)
        others == {g \in (DOMAIN t) \ mine : t[g].inode = t[fd].inode}
        busy   == \E g \in others :
                     \/ t[g].lock = "ex"
                     \/ kind = "ex" /\ t[g].lock # "none"
    IN  IF fault
        THEN [ret |-> -1, errno |-> "ENOLCK", fdtab |-> t, wait |-> FALSE]
        ELSE IF kind = "invalid" \/ c \notin {F_SETLK, F_SETLKW}
        THEN [ret |-> -1, errno |-> "EINVAL", fdtab |-> t, wait |-> FALSE]
        ELSE IF kind # "none" /\ busy
        THEN IF c = F_SETLK
             THEN [ret |-> -1, errno |-> "EAGAIN", fdtab |-> t, wait |-> FALSE]
             ELSE [ret |-> -1, errno |-> "EINTR", fdtab |-> t, wait |-> TRUE]
        ELSE [ret |-> 0, errno |-> "",
              fdtab |-> [g \in DOMAIN t |->
                           IF g \in mine /\ t[g].inode = t[fd].inode
                           THEN [t[g] EXCEPT !.lock = kind] ELSE t[g]],
              wait |-> FALSE]

\* FdLock::flock, lines 111-147: [ok, kind, err, fdtab, wait, fcntl], where
\* fcntl is the sequence of the fcntl calls made (none or one) and kind tells
\* an error of the operating system ("Os") from one the code makes ("Other")
flock_solaris(t, mine, fd, operation, flag, fault) ==
    LET ty == l_type(operation)
    IN  IF ty = <<>>
        THEN [ok |-> FALSE, kind |-> "Other",
              err |-> "unexpected flock() operation",
              fdtab |-> t, wait |-> FALSE, fcntl |-> <<>>]
        ELSE LET lk == [l_type |-> ty[1], l_whence |-> 0, l_start |-> 0,
                        l_len |-> 0]
                 r  == libc_fcntl(t, mine, fd, cmd(flag), lk, fault)
             IN  [ok |-> r.ret >= 0, kind |-> "Os", err |-> r.errno,
                  fdtab |-> r.fdtab, wait |-> r.wait,
                  fcntl |-> <<[cmd |-> cmd(flag), lock |-> lk]>>]

\* the calls of flock(operation) of other callers than a that are in progress
Asleep(a) == [b \in {c \in DOMAIN arg : pc[c] = "flock"} \ {a} |-> arg[b]]

\* what a call of flock(operation) made of r: the caller sleeps inside
\* libc::fcntl (nothing returned yet), or the call returns
AnswerSolaris(a, operation, flag, r) ==
    /\ fdtab' = r.fdtab
    /\ arg' = Put(Asleep(a), a,
                  [operation |-> operation, flag |-> flag, fcntl |-> r.fcntl,
                   returned |-> IF r.wait THEN <<>>
                                ELSE IF r.ok THEN <<"Ok">>
                                ELSE <<"Err", r.kind, r.err>>])
    /\ pc' = [pc EXCEPT ![a] = IF r.wait THEN "flock" ELSE "idle"]
    /\ UNCHANGED <<dirent, inodes, pid, file_path, file, self, result, calls>>

\* the descriptors of the process the actor runs in
Mine(a) == {file[b] : b \in {c \in DOMAIN file : process_id(c) = process_id(a)}}

FlockSolaris(a, operation, flag, fault) ==
    /\ Ready(a)
    /\ AnswerSolaris(a, operation, flag,
                     flock_solaris(fdtab, Mine(a), file[a], operation, flag,
                                   fault))

\* a caller asleep in libc::fcntl need not wait any more: the call returns
GrantedSolaris(a) ==
    /\ pc[a] = "flock"
    /\ LET r == flock_solaris(fdtab, Mine(a), file[a], arg[a].operation,
                              arg[a].flag, FALSE)
       IN  ~r.wait /\ AnswerSolaris(a, arg[a].operation, arg[a].flag, r)

\* a signal interrupts a caller asleep in libc::fcntl: Err(EINTR)
InterruptedSolaris(a) ==
    /\ pc[a] = "flock"
    /\ LET r == flock_solaris(fdtab, Mine(a), file[a], arg[a].operation,
                              arg[a].flag, FALSE)
       IN  r.wait /\ AnswerSolaris(a, arg[a].operation, arg[a].flag,
                                   [r EXCEPT !.wait = FALSE])

(* ------------------------------------------------------- Pid (src/pid.rs) *)

\* a Pid::new that cleans up on failure: it removes the file it created
ReturnErr_removes(a, e, t, d, ino, closes) ==
    /\ pc' = [pc EXCEPT ![a] = "idle"]
    /\ result' = [result EXCEPT ![a] = e]
    /\ pid' = Del(pid, a)
    /\ file_path' = Del(file_path, a)
    /\ file' = Del(file, a)
    /\ fdtab' = IF closes THEN Close(t, file[a]) ELSE t
    /\ dirent' = Del(d, file_path[a])
    /\ inodes' = Reclaim(dirent', fdtab', ino)
    /\ UNCHANGED self

\* a Pid::new whose local `file` outlives the call: nothing closes it
ReturnErr_leaks(a, e, t, d, ino, closes) ==
    /\ pc' = [pc EXCEPT ![a] = "idle"]
    /\ result' = [result EXCEPT ![a] = e]
    /\ pid' = Del(pid, a)
    /\ file_path' = Del(file_path, a)
    /\ file' = Del(file, a)
    /\ fdtab' = t
    /\ dirent' = d
    /\ inodes' = Reclaim(d, fdtab', ino)
    /\ UNCHANGED self

\* the actor's Pid::new returns Err(e): the local `file`, if it was opened,
\* goes out of scope, which closes it
ReturnErr(a, e, t, d, ino, closes) ==
    /\ pc' = [pc EXCEPT ![a] = "idle"]
    /\ result' = [result EXCEPT ![a] = e]
    /\ pid' = Del(pid, a)
    /\ file_path' = Del(file_path, a)
    /\ file' = Del(file, a)
    /\ fdtab' = IF closes THEN Close(t, file[a]) ELSE t
    /\ dirent' = d
    /\ inodes' = Reclaim(d, fdtab', ino)
    /\ UNCHANGED self

\* Pid::new, lines 89-91: read the process id, format the path, File::create
NewCreate(a, path, name, fault) ==
    /\ pc[a] = "idle"
    /\ UNCHANGED arg
    /\ a \notin DOMAIN self
    /\ LET fp == FilePath(path, name)
           o  == OpenCreateTrunc(dirent, inodes, fdtab, fp)
       IN  /\ calls' = [calls EXCEPT ![a] = <<"open">>]
           /\ IF fault
              THEN /\ pc' = [pc EXCEPT ![a] = "idle"]
                   /\ result' = [result EXCEPT ![a] = Err("create", "EACCES")]
                   /\ UNCHANGED <<dirent, inodes, fdtab, pid, file_path,
                                  file, self>>
              ELSE /\ pid' = Put(pid, a, process_id(a))
                   /\ file_path' = Put(file_path, a, fp)
                   /\ file' = Put(file, a, o.fd)
                   /\ dirent' = o.dirent
                   /\ inodes' = o.inodes
                   /\ fdtab' = o.fdtab
                   /\ pc' = [pc EXCEPT ![a] = "created"]
                   /\ result' = [result EXCEPT ![a] = NoResult]
                   /\ UNCHANGED self

\* a Pid::new that writes the identifier before it asks for the lock
NewTryLock_writes_first(a, fault) ==
    /\ pc[a] = "created"
    /\ UNCHANGED arg
    /\ LET r   == try_lock_exclusive(fdtab, file[a], fault)
           i   == fdtab[file[a]].inode
           ino == [inodes EXCEPT ![i] = WriteAt(@, 0, Decimal(pid[a]))]
       IN  IF r.ok
           THEN /\ fdtab' = r.fdtab
                /\ inodes' = ino
                /\ pc' = [pc EXCEPT ![a] = "locked"]
                /\ calls' = [calls EXCEPT ![a] = Append(@, "flock")]
                /\ UNCHANGED <<dirent, pid, file_path, file, self, result>>
           ELSE /\ calls' = [calls EXCEPT ![a] = @ \o <<"flock", "close">>]
                /\ ReturnErr(a, Err("lock", r.err), r.fdtab, dirent, ino, TRUE)

\* Pid::new, line 92: file.try_lock_exclusive()?
NewTryLock(a, fault) ==
    /\ pc[a] = "created"
    /\ UNCHANGED arg
    /\ LET r == try_lock_exclusive(fdtab, file[a], fault)
       IN  IF r.ok
           THEN /\ fdtab' = r.fdtab
                /\ pc' = [pc EXCEPT ![a] = "locked"]
                /\ calls' = [calls EXCEPT ![a] = Append(@, "flock")]
                /\ UNCHANGED <<dirent, inodes, pid, file_path, file,
                               self, result>>
           ELSE /\ calls' = [calls EXCEPT ![a] = @ \o <<"flock", "close">>]
                /\ ReturnErr(a, Err("lock", r.err), r.fdtab, dirent, inodes, TRUE)

\* NewWrite with the result of write_all ignored: Ok(Self) whatever was written
NewWrite_ignores_error(a, written) ==
    /\ pc[a] = "locked"
    /\ UNCHANGED arg
    /\ LET bytes == Decimal(pid[a])
           fd    == file[a]
           i     == fdtab[fd].inode
           put   == SubSeq(bytes, 1, written)
       IN  /\ written \in 0..Len(bytes)
           /\ inodes' = [inodes EXCEPT ![i] = WriteAt(@, fdtab[fd].offset, put)]
           /\ fdtab' = [fdtab EXCEPT ![fd].offset = @ + written]
           /\ self' = Put(self, a, [process_id |-> pid[a],
                                    file_path  |-> file_path[a],
                                    file       |-> fd])
           /\ pid' = Del(pid, a)
           /\ file_path' = Del(file_path, a)
           /\ file' = Del(file, a)
           /\ pc' = [pc EXCEPT ![a] = "held"]
           /\ result' = [result EXCEPT ![a] = Ok("new")]
           /\ calls' = [calls EXCEPT ![a] = Append(@, "write")]
           /\ UNCHANGED dirent

\* Pid::new, lines 93-98: file.write_all(format!("{pid}").as_bytes())?, then
\* Ok(Self { process_id: pid, file_path, file }).  write_all puts `written`
\* bytes into the file; it fails when that is not all of them.
NewWrite(a, written) ==
    /\ pc[a] = "locked"
    /\ UNCHANGED arg
    /\ LET bytes == Decimal(pid[a])
           fd    == file[a]
           i     == fdtab[fd].inode
           put   == SubSeq(bytes, 1, written)
           ino   == [inodes EXCEPT ![i] = WriteAt(@, fdtab[fd].offset, put)]
           t     == [fdtab EXCEPT ![fd].offset = @ + written]
       IN  /\ written \in 0..Len(bytes)
           /\ IF written = Len(bytes)
              THEN /\ inodes' = ino
                   /\ fdtab' = t
                   /\ self' = Put(self, a, [process_id |-> pid[a],
                                            file_path  |-> file_path[a],
                                            file       |-> fd])
                   /\ pid' = Del(pid, a)
                   /\ file_path' = Del(file_path, a)
                   /\ file' = Del(file, a)
                   /\ pc' = [pc EXCEPT ![a] = "held"]
                   /\ result' = [result EXCEPT ![a] = Ok("new")]
                   /\ calls' = [calls EXCEPT ![a] = Append(@, "write")]
                   /\ UNCHANGED dirent
              ELSE /\ calls' = [calls EXCEPT ![a] = @ \o <<"write", "close">>]
                   /\ ReturnErr(a, Err("write", "ENOSPC"), t, dirent, ino, TRUE)

\* drop ends: the instance is gone and its field `file` is dropped, which
\* closes the descriptor
EndDrop(a, r, t, d) ==
    /\ pc' = [pc EXCEPT ![a] = "idle"]
    /\ result' = [result EXCEPT ![a] = r]
    /\ self' = Del(self, a)
    /\ fdtab' = Close(t, self[a].file)
    /\ dirent' = d
    /\ inodes' = Reclaim(d, fdtab', inodes)
    /\ UNCHANGED <<pid, file_path, file>>

\* drop that leaks the instance: nothing is unlocked, removed or closed
DropUnlock_leaks(a, fault) ==
    /\ pc[a] = "held"
    /\ UNCHANGED arg
    /\ pc' = [pc EXCEPT ![a] = "idle"]
    /\ result' = [result EXCEPT ![a] = Ok("drop")]
    /\ self' = Del(self, a)
    /\ calls' = [calls EXCEPT ![a] = <<>>]
    /\ UNCHANGED <<dirent, inodes, fdtab, pid, file_path, file>>

\* drop with the result of unlock ignored: remove_file runs whatever it was
DropUnlock_ignores_error(a, fault) ==
    /\ pc[a] = "held"
    /\ UNCHANGED arg
    /\ LET r == unlock(fdtab, self[a].file, fault)
       IN  /\ fdtab' = r.fdtab
           /\ pc' = [pc EXCEPT ![a] = "unlocked"]
           /\ calls' = [calls EXCEPT ![a] = <<"flock">>]
           /\ result' = [result EXCEPT ![a] = NoResult]
           /\ UNCHANGED <<dirent, inodes, pid, file_path, file, self>>

\* Drop for Pid, line 104: self.file.unlock().unwrap()
DropUnlock(a, fault) ==
    /\ pc[a] = "held"
    /\ UNCHANGED arg
    /\ LET r == unlock(fdtab, self[a].file, fault)
       IN  IF r.ok
           THEN /\ fdtab' = r.fdtab
                /\ pc' = [pc EXCEPT ![a] = "unlocked"]
                /\ calls' = [calls EXCEPT ![a] = <<"flock">>]
                /\ result' = [result EXCEPT ![a] = NoResult]
                /\ UNCHANGED <<dirent, inodes, pid, file_path, file,
                               self>>
           ELSE /\ calls' = [calls EXCEPT ![a] = <<"flock", "close">>]
                /\ EndDrop(a, Panic("unlock", r.err), r.fdtab, dirent)

\* drop without the remove_file call
DropRemove_keeps_file(a, fault) ==
    /\ pc[a] = "unlocked"
    /\ UNCHANGED arg
    /\ calls' = [calls EXCEPT ![a] = @ \o <<"close">>]
    /\ EndDrop(a, Ok("drop"), fdtab, dirent)

\* drop that removes the path built from the first name, not self.file_path
DropRemove_first_name(a, fault) ==
    /\ pc[a] = "unlocked"
    /\ UNCHANGED arg
    /\ LET r == libc_unlink(dirent, FilePath("/tmp", "demo"), fault)
       IN  /\ calls' = [calls EXCEPT ![a] = @ \o <<"unlink", "close">>]
           /\ IF r.ret < 0
              THEN EndDrop(a, Panic("remove", r.errno), fdtab, r.dirent)
              ELSE EndDrop(a, Ok("drop"), fdtab, r.dirent)

\* Drop for Pid, line 105: std::fs::remove_file(self.file_path.clone()).unwrap()
DropRemove(a, fault) ==
    /\ pc[a] = "unlocked"
    /\ UNCHANGED arg
    /\ LET r == libc_unlink(dirent, self[a].file_path, fault)
       IN  /\ calls' = [calls EXCEPT ![a] = @ \o <<"unlink", "close">>]
           /\ IF r.ret < 0
              THEN EndDrop(a, Panic("remove", r.errno), fdtab, r.dirent)
              ELSE EndDrop(a, Ok("drop"), fdtab, r.dirent)

(* ---------------------------------------------------------- specification *)

\* the files a run may find: each path absent, or left by an earlier
\* process with up to MaxStale bytes in it
InitialFiles == [Paths -> -1..MaxStale]

Numbering(E) ==
    CHOOSE f \in [E -> 1..Cardinality(E)] : \A p, q \in E : p # q => f[p] # f[q]

Init ==
    /\ \E st \in InitialFiles :
          LET E == {p \in Paths : st[p] >= 0}
              n == Numbering(E)
          IN  /\ dirent = [p \in E |-> n[p]]
              /\ inodes = [i \in 1..Cardinality(E) |->
                             LET p == CHOOSE q \in E : n[q] = i
                             IN  [k \in 1..st[p] |-> "9"]]
    /\ fdtab = Empty
    /\ pc = [a \in Actors |-> "idle"]
    /\ pid = Empty
    /\ file_path = Empty
    /\ file = Empty
    /\ self = Empty
    /\ result = [a \in Actors |-> NoResult]
    /\ calls = [a \in Actors |-> <<>>]
    /\ arg = Empty

Next ==
    \E a \in Actors :
        \/ \E path \in Dirs, name \in Names, fault \in BOOLEAN :
              NewCreate(a, path, name, fault)
        \/ \E fault \in BOOLEAN : NewTryLock(a, fault)
        \/ \E written \in 0..10 : NewWrite(a, written)
        \/ \E fault \in BOOLEAN : DropUnlock(a, fault)
        \/ \E fault \in BOOLEAN : DropRemove(a, fault)

Spec == Init /\ [][Next]_vars

\* Sequential use: a caller starts Pid::new only while no other caller is in
\* a call or owns an instance (construct, destroy, construct, ...)
SeqCreate(a, path, name, fault) ==
    /\ \A b \in Actors \ {a} : pc[b] = "idle"
    /\ NewCreate(a, path, name, fault)

NextSeq ==
    \E a \in Actors :
        \/ \E path \in Dirs, name \in Names, fault \in BOOLEAN :
              SeqCreate(a, path, name, fault)
        \/ \E fault \in BOOLEAN : NewTryLock(a, fault)
        \/ \E written \in 0..10 : NewWrite(a, written)
        \/ \E fault \in BOOLEAN : DropUnlock(a, fault)
        \/ \E fault \in BOOLEAN : DropRemove(a, fault)

SpecSeq == Init /\ [][NextSeq]_vars

\* Callers that use two names in an empty directory: the PID files of
\* different names are different files.  Every caller has the name it passes
\* to Pid::new: callers of the same parity run the same program.
TwoNames == {"demo", "job"}

NameOf(a) == IF a % 2 = 1 THEN "demo" ELSE "job"

InitNames ==
    /\ dirent = Empty
    /\ inodes = <<>>
    /\ fdtab = Empty
    /\ pc = [a \in Actors |-> "idle"]
    /\ pid = Empty
    /\ file_path = Empty
    /\ file = Empty
    /\ self = Empty
    /\ result = [a \in Actors |-> NoResult]
    /\ calls = [a \in Actors |-> <<>>]
    /\ arg = Empty

NextNames ==
    \E a \in Actors :
        \/ \E path \in Dirs, fault \in BOOLEAN :
              NewCreate(a, path, NameOf(a), fault)
        \/ \E fault \in BOOLEAN : NewTryLock(a, fault)
        \/ \E written \in 0..10 : NewWrite(a, written)
        \/ \E fault \in BOOLEAN : DropUnlock(a, fault)
        \/ \E fault \in BOOLEAN : DropRemove(a, fault)

SpecNames == InitNames /\ [][NextNames]_vars

\* Callers of FdLock: every actor owns one File, all opened on the same file,
\* and calls the five methods of the trait on it in any order
InitLock ==
    /\ \E p \in Paths : dirent = [q \in {p} |-> 1]
    /\ inodes = <<<<>>>>
    /\ fdtab = [a \in Actors |-> [inode |-> 1, offset |-> 0, lock |-> "none"]]
    /\ file = [a \in Actors |-> a]
    /\ pc = [a \in Actors |-> "idle"]
    /\ pid = Empty
    /\ file_path = Empty
    /\ self = Empty
    /\ result = [a \in Actors |-> NoResult]
    /\ calls = [a \in Actors |-> <<>>]
    /\ arg = Empty

NextLock ==
    \E a \in Actors :
        \/ \E fault \in BOOLEAN : LockShared(a, fault)
        \/ \E fault \in BOOLEAN : LockExclusive(a, fault)
        \/ \E fault \in BOOLEAN : TryLockShared(a, fault)
        \/ \E fault \in BOOLEAN : TryLockExclusive(a, fault)
        \/ \E fault \in BOOLEAN : Unlock(a, fault)
        \/ Granted(a)
        \/ Interrupted(a)

SpecLock == InitLock /\ [][NextLock]_vars

\* Callers of FdLock::flock as built for Solaris: every actor owns one File
\* of the same file and passes any operation code up to MaxOperation.  `flag`
\* names nothing in the function, so its LOCK_NB bit is any of the two.
Operations == 0..MaxOperation

Flags == {0, LOCK_NB}

NextSolaris ==
    \E a \in Actors :
        \/ \E operation \in Operations, flag \in Flags, fault \in BOOLEAN :
              FlockSolaris(a, operation, flag, fault)
        \/ GrantedSolaris(a)
        \/ InterruptedSolaris(a)

SpecSolaris == InitLock /\ [][NextSolaris]_vars

(* ------------------------------------------------------------ vocabulary *)

\* the actor owns a PID File instance whose destruction has not begun
Live(a) == a \in DOMAIN self /\ pc[a] = "held"

\* what reading the file at `path` yields.  <<"absent">> stands for the error
\* of reading a path that does not exist; no content equals it, since every
\* element of a content is a single byte.
ReadFile(path) ==
    IF path \in DOMAIN dirent THEN inodes[dirent[path]] ELSE <<"absent">>

\* the actor's Pid::new has just returned Ok in this step
Constructed(a) == pc[a] = "locked" /\ pc'[a] = "held"

(* ----------------------------------------------------------------- claims *)

\* C1: a construction attempted for the (directory, name) of an instance that
\* is alive fails at its lock step and returns no instance.
C1_SecondConstructionFails ==
    [][\A a \in Actors :
          ( /\ pc[a] = "created"
            /\ pc'[a] # "created"
            /\ \E b \in Actors \ {a} :
                  Live(b) /\ self[b].file_path = file_path[a] )
          => ( /\ pc'[a] = "idle"
               /\ a \notin DOMAIN self'
               /\ result'[a].outcome = "Err"
               /\ result'[a].at = "lock" )]_vars

\* C2: at most one live PID File instance exists for a path, in every state
\* of every interleaving of the construct and destroy steps.
C2_AtMostOneLive ==
    \A a, b \in Actors :
        (Live(a) /\ Live(b) /\ self[a].file_path = self[b].file_path) => a = b

\* C3: while an instance is alive, the file at its file_path contains exactly
\* the decimal text of its process_id.
C3_ContentIsProcessId ==
    \A a \in Actors :
        Live(a) => ReadFile(self[a].file_path) = Decimal(self[a].process_id)

\* C4: while an instance is alive, a file exists at its file_path.
C4_FileExists ==
    \A a \in Actors : Live(a) => self[a].file_path \in DOMAIN dirent

\* C5: while an instance is alive, the file handle it owns holds an
\* exclusive lock on its file.
C5_HandleHoldsExclusiveLock ==
    \A a \in Actors :
        Live(a) => /\ self[a].file \in DOMAIN fdtab
                   /\ fdtab[self[a].file].lock = "ex"

\* C5 witness: an instance is alive with its lock held, and another actor's
\* construction has just been refused on it.
C5_Witness ==
    \E a, b \in Actors :
        /\ Live(a)
        /\ fdtab[self[a].file].lock = "ex"
        /\ result[b] = Err("lock", "EWOULDBLOCK")

\* C6: when a construction succeeds, reading the file at file_path yields
\* exactly the decimal string of the constructing process's identifier.
C6_ReadAfterConstruct ==
    [][\A a \in Actors :
          Constructed(a) =>
              ReadFile(self[a].file_path)' = Decimal(self'[a].process_id)]_vars

\* C7: when the destruction of an instance completes, no file exists at the
\* instance's file_path.
C7_NoFileAfterDestroy ==
    [][\A a \in Actors :
          (pc[a] = "unlocked" /\ result'[a] = Ok("drop"))
          => self[a].file_path \notin DOMAIN dirent']_vars

\* C7 witness: a destruction has completed and the path is gone.
C7_Witness ==
    \E a \in Actors :
        /\ result[a] = Ok("drop")
        /\ calls[a] = <<"flock", "unlink", "close">>
        /\ DOMAIN dirent = {}

\* C8: construct, destroy, construct with the same arguments: when the
\* destroy completes it leaves no open or locked handle and no file, and the
\* construct that follows is never refused for contention; it fails only when
\* one of its own system calls is failed by the operating system.
C8_RoundTrip ==
    [][\A a \in Actors :
          /\ (pc[a] = "unlocked" /\ result'[a] = Ok("drop"))
             => (fdtab' = Empty /\ self[a].file_path \notin DOMAIN dirent')
          /\ (pc[a] = "created" /\ pc'[a] # "created")
             => \/ pc'[a] = "locked"
                \/ result'[a] = Err("lock", "ENOLCK")
          /\ (pc[a] = "locked" /\ pc'[a] # "locked")
             => \/ Live(a)' /\ ReadFile(self[a].file_path)' = Decimal(process_id(a))
                \/ result'[a] = Err("write", "ENOSPC")]_vars

\* C8 witness: one caller's instance was destroyed, and a construction for
\* the same path that started after it has succeeded.
C8_Witness ==
    \E a, b \in Actors :
        /\ a # b
        /\ result[b] = Ok("drop")
        /\ Live(a)
        /\ ReadFile(self[a].file_path) = Decimal(self[a].process_id)

\* C9: construction is all-or-nothing.  A Pid::new that returned an error made
\* the system calls up to the failing step and none after it (then closed the
\* file it had opened), and left the caller no instance; an instance exists
\* only after create, lock and the whole write succeeded.
C9_AllOrNothing ==
    \A a \in Actors :
        /\ result[a].outcome = "Err" =>
              /\ pc[a] = "idle"
              /\ a \notin DOMAIN self
              /\ a \notin DOMAIN file
              /\ calls[a] = CASE result[a].at = "create" -> <<"open">>
                              [] result[a].at = "lock" -> <<"open", "flock", "close">>
                              [] result[a].at = "write" ->
                                    <<"open", "flock", "write", "close">>
        /\ a \in DOMAIN self <=> pc[a] \in {"held", "unlocked"}
        /\ Live(a) =>
              /\ calls[a] = <<"open", "flock", "write">>
              /\ fdtab[self[a].file].offset = Len(Decimal(self[a].process_id))

\* C9 witness: constructions have failed at the lock step and at the write step.
C9_Witness ==
    \E a, b \in Actors :
        /\ result[a].outcome = "Err" /\ result[a].at = "lock"
        /\ result[b].outcome = "Err" /\ result[b].at = "write"

\* C10: destroy releases the lock first and removes the file second.  When the
\* lock release fails the destroy ends there: no removal is attempted and the
\* directory is left as it was.  The removal is attempted only once the lock
\* is released, and a failed removal ends the destroy with a panic.
C10_DestroyOrder ==
    [][\A a \in Actors :
          /\ (pc[a] = "held" /\ pc'[a] = "unlocked")
             => /\ fdtab'[self[a].file].lock = "none"
                /\ dirent' = dirent
          /\ (pc[a] = "held" /\ pc'[a] = "idle")
             => /\ result'[a] = Panic("unlock", "ENOLCK")
                /\ calls'[a] = <<"flock", "close">>
                /\ dirent' = dirent
                /\ a \notin DOMAIN self'
          /\ (pc[a] = "unlocked" /\ pc'[a] # "unlocked")
             => /\ fdtab[self[a].file].lock = "none"
                /\ calls'[a] = <<"flock", "unlink", "close">>
                /\ \/ result'[a] = Ok("drop")
                   \/ /\ result'[a].outcome = "panic"
                      /\ result'[a].at = "remove"
                      /\ dirent' = dirent]_vars

\* C10 witness: a destroy has aborted at the lock release and the file is
\* still there.
C10_Witness ==
    \E a \in Actors :
        /\ result[a] = Panic("unlock", "ENOLCK")
        /\ pc[a] = "idle"
        /\ DOMAIN dirent = Paths

(* ------------------------------------------------ claims about FdLock *)

\* the lock kind a method asks for
KindOf(m) ==
    CASE m \in {"lock_shared", "try_lock_shared"} -> "sh"
      [] m \in {"lock_exclusive", "try_lock_exclusive"} -> "ex"
      [] OTHER -> "none"

\* the handle of actor a holds a lock of `kind` for its owner: the last call
\* made on it asked for that kind and returned Ok
Holds(a, kind) ==
    /\ pc[a] = "idle"
    /\ result[a].outcome = "Ok"
    /\ result[a].call \in Methods
    /\ KindOf(result[a].call) = kind

\* method m, called by actor a, returns in this step
Returns(a, m) == result'[a] # result[a] /\ result'[a].call = m

\* C11: at most one handle holds an exclusive lock, and no handle holds a
\* shared lock while another holds an exclusive one; what a handle holds for
\* its owner is what the lock table records for it.
C11_MutualExclusion ==
    /\ \A a \in Actors : \A kind \in {"sh", "ex"} :
          Holds(a, kind) => fdtab[file[a]].lock = kind
    /\ \A a, b \in Actors :
          (a # b /\ Holds(a, "ex")) => (~Holds(b, "ex") /\ ~Holds(b, "sh"))

\* C11 witness: two handles hold shared locks at once.
C11_Witness ==
    \E a, b \in Actors : a # b /\ Holds(a, "sh") /\ Holds(b, "sh")

\* C12: try_lock_shared and try_lock_exclusive never wait.  Called while
\* another handle holds a conflicting lock they return an error at once and
\* grant nothing; called while none does they return Ok with the lock held
\* (or the error of an operating system fault).
C12_TryNeverWaits ==
    [][\A a \in Actors : \A m \in {"try_lock_shared", "try_lock_exclusive"} :
          /\ pc'[a] # m
          /\ (pc[a] = "idle" /\ Returns(a, m)) =>
                IF Conflict(fdtab, file[a], KindOf(m))
                THEN /\ result'[a].outcome = "Err"
                     /\ result'[a].err \in {"EWOULDBLOCK", "ENOLCK"}
                     /\ fdtab'[file[a]].lock # KindOf(m)
                ELSE \/ /\ result'[a].outcome = "Ok"
                        /\ fdtab'[file[a]].lock = KindOf(m)
                     \/ /\ result'[a].outcome = "Err"
                        /\ result'[a].err = "ENOLCK"]_vars

\* C12 witness: a try_lock_exclusive was refused for contention while another
\* handle holds a lock.
C12_Witness ==
    \E a, b \in Actors :
        /\ a # b
        /\ result[a] = [call |-> "try_lock_exclusive", outcome |-> "Err",
                        at |-> "", err |-> "EWOULDBLOCK"]
        /\ pc[a] = "idle"
        /\ Holds(b, "sh")

\* C13: lock_shared and lock_exclusive block until the lock is available.
\* They never return a contention error; they return Ok only from a state in
\* which no other handle holds a conflicting lock, and then with the lock
\* granted; and they sleep only while another handle holds a conflicting lock.
C13_BlockingWaits ==
    [][\A a \in Actors : \A m \in {"lock_shared", "lock_exclusive"} :
          /\ Returns(a, m) =>
                /\ result'[a].err # "EWOULDBLOCK"
                /\ result'[a].outcome = "Ok" =>
                      /\ ~Conflict(fdtab, file[a], KindOf(m))
                      /\ fdtab'[file[a]].lock = KindOf(m)
                      /\ ~Conflict(fdtab', file[a], KindOf(m))
          /\ (pc[a] = "idle" /\ pc'[a] = m) => Conflict(fdtab, file[a], KindOf(m))
          /\ (pc[a] = m /\ Conflict(fdtab, file[a], KindOf(m)))
                => (pc'[a] = m \/ result'[a].err = "EINTR")]_vars

\* C13 witness: a caller sleeps in lock_exclusive while another handle holds
\* a shared lock.
C13_Witness ==
    \E a, b \in Actors :
        /\ a # b
        /\ pc[a] = "lock_exclusive"
        /\ Holds(b, "sh")
        /\ Conflict(fdtab, file[a], "ex")

\* C14: unlock on a handle that holds no lock returns Ok and leaves the lock
\* of every handle as it was; it fails only when the operating system fails
\* the call for a reason of its own, never because no lock is held.
C14_UnlockNoLock ==
    [][\A a \in Actors :
          (pc[a] = "idle" /\ a \in DOMAIN file /\ Returns(a, "unlock")
              /\ fdtab[file[a]].lock = "none")
          => /\ pc'[a] = "idle"
             /\ fdtab' = fdtab
             /\ \/ result'[a].outcome = "Ok"
                \/ result'[a].err = "ENOLCK"]_vars

\* C14 witness: an unlock has returned Ok and its handle holds no lock, while
\* the lock another handle holds is still in place.
C14_Witness ==
    \E a, b \in Actors :
        /\ a # b
        /\ result[a] = [call |-> "unlock", outcome |-> "Ok", at |-> "", err |-> ""]
        /\ fdtab[file[a]].lock = "none"
        /\ Holds(b, "ex")

(* ------------------------------------------------- claims about the fields *)

Fails(a, at) ==
    /\ pc[a] \in {"created", "locked"}
    /\ pc'[a] = "idle"
    /\ result'[a].outcome = "Err"
    /\ result'[a].at = at

\* C16: a Pid::new that fails at its lock step or at its write step makes no
\* remove call and leaves every directory entry, the one of its own path
\* included, as it was.
C16_FailureKeepsFile ==
    [][\A a \in Actors :
          (Fails(a, "lock") \/ Fails(a, "write"))
            => /\ dirent' = dirent
               /\ \A k \in 1..Len(calls'[a]) : calls'[a][k] # "unlink"]_vars

\* C16 witness: a Pid::new has failed at its lock step, another at its write
\* step, and the file they opened is still in the directory.
C16_Witness ==
    \E a, b \in Actors :
        /\ pc[a] = "idle" /\ pc[b] = "idle"
        /\ result[a].outcome = "Err" /\ result[a].at = "lock"
        /\ result[b].outcome = "Err" /\ result[b].at = "write"
        /\ DOMAIN dirent = Paths

\* C19: the step of Pid::new that writes is taken only with the exclusive
\* lock of its own try_lock_exclusive on the handle, after the open and the
\* lock call; the lock step writes nothing, and when it fails the call ends
\* with no write call and every file that remains has the bytes it had.
C19_WriteAfterLock ==
    [][\A a \in Actors :
          /\ (pc[a] = "locked" /\ pc'[a] # "locked")
                => /\ fdtab[file[a]].lock = "ex"
                   /\ calls[a] = <<"open", "flock">>
          /\ (pc[a] = "created" /\ pc'[a] # "created")
                => /\ \A i \in DOMAIN inodes' : inodes'[i] = inodes[i]
                   /\ \A k \in 1..Len(calls'[a]) : calls'[a][k] # "write"
          /\ Fails(a, "lock")
                => calls'[a] = <<"open", "flock", "close">>]_vars

\* C19 witness: a Pid::new was refused the lock by a live instance, and the
\* file still reads as the identifier of that instance's process.
C19_Witness ==
    \E a, b \in Actors :
        /\ a # b
        /\ pc[a] = "idle"
        /\ result[a] = Err("lock", "EWOULDBLOCK")
        /\ Live(b)
        /\ ReadFile(self[b].file_path) = Decimal(self[b].process_id)

\* the actors whose Pid::new or instance owns the descriptor
Owners(fd) ==
    {a \in Actors : \/ a \in DOMAIN file /\ file[a] = fd
                    \/ a \in DOMAIN self /\ self[a].file = fd}

\* C20: a Pid::new that fails at the write step closes its handle, so that
\* every open descriptor belongs to a Pid::new in progress or to an instance,
\* and a Pid::new is refused the lock only while such a one holds it.
C20_FailureReleasesLock ==
    [][/\ \A fd \in DOMAIN fdtab : Owners(fd) # {}
       /\ \A a \in Actors :
             /\ Fails(a, "write")
                   => /\ file[a] \notin DOMAIN fdtab'
                      /\ calls'[a] = <<"open", "flock", "write", "close">>
             /\ (Fails(a, "lock") /\ result'[a].err = "EWOULDBLOCK")
                   => \E b \in Actors \ {a} :
                         /\ pc[b] \in {"locked", "held"}
                         /\ \E fd \in DOMAIN fdtab :
                               /\ b \in Owners(fd)
                               /\ fdtab[fd].lock = "ex"
                               /\ fdtab[fd].inode = fdtab[file[a]].inode]_vars

\* C20 witness: a Pid::new has failed at its write step and the instance of
\* another Pid::new, which opened, locked and wrote the file, is alive.
C20_Witness ==
    \E a, b \in Actors :
        /\ a # b
        /\ pc[a] = "idle"
        /\ result[a] = Err("write", "ENOSPC")
        /\ calls[a] = <<"open", "flock", "write", "close">>
        /\ Live(b)
        /\ calls[b] = <<"open", "flock", "write">>
        /\ \A fd \in DOMAIN fdtab : Owners(fd) = {b}

(* ------------------------------- claims about FdLock::flock for Solaris *)

\* the operation code has none of the bits LOCK_UN, LOCK_EX, LOCK_SH
NoLockBit(operation) ==
    /\ ~HasBit(operation, LOCK_UN)
    /\ ~HasBit(operation, LOCK_EX)
    /\ ~HasBit(operation, LOCK_SH)

\* C17: a call of flock for Solaris with an operation code that has none of
\* the bits LOCK_UN, LOCK_EX, LOCK_SH returns the error the code makes, which
\* is no error of the operating system, and makes no fcntl call.
C17_RejectsUnknownOperation ==
    \A a \in DOMAIN arg :
        NoLockBit(arg[a].operation)
          => /\ pc[a] = "idle"
             /\ arg[a].returned =
                   <<"Err", "Other", "unexpected flock() operation">>
             /\ arg[a].fcntl = <<>>

\* C17 witness: a call that passed LOCK_NB alone has returned an error while
\* the call of another caller, which made its fcntl call, is asleep.
C17_Witness ==
    \E a, b \in DOMAIN arg :
        /\ arg[a].operation = LOCK_NB
        /\ arg[a].returned # <<>>
        /\ arg[a].returned[1] = "Err"
        /\ pc[b] = "flock"
        /\ Len(arg[b].fcntl) = 1

\* the operation codes of the interface: a lock kind, with or without LOCK_NB
ValidOperations ==
    {LOCK_SH, LOCK_EX, LOCK_UN, BitOr(LOCK_SH, LOCK_NB), BitOr(LOCK_EX, LOCK_NB),
     BitOr(LOCK_UN, LOCK_NB)}

\* C18: a call of flock for Solaris with a valid operation code makes one
\* fcntl call, with l_type F_UNLCK for LOCK_UN, F_WRLCK for LOCK_EX, F_RDLCK
\* for LOCK_SH, on the whole file (l_whence 0, l_start 0, l_len 0), and with
\* the command F_SETLK when the code has LOCK_NB and F_SETLKW when it has not.
C18_TranslatesOperation ==
    \A a \in DOMAIN arg :
        arg[a].operation \in ValidOperations
          => arg[a].fcntl =
               <<[cmd  |-> IF HasBit(arg[a].operation, LOCK_NB)
                           THEN F_SETLK ELSE F_SETLKW,
                  lock |-> [l_type   |-> IF HasBit(arg[a].operation, LOCK_UN)
                                         THEN F_UNLCK
                                         ELSE IF HasBit(arg[a].operation, LOCK_EX)
                                         THEN F_WRLCK ELSE F_RDLCK,
                            l_whence |-> 0, l_start |-> 0, l_len |-> 0]]>>

====
